---- MODULE Spec2Model ----
(***************************************************************************)
(* A model of src/db/mysql/MysqlResultSet.c: the MySQL result set          *)
(* delegate of libzdb.  The cursor R (struct ResultSetDelegate_T) sits on  *)
(* a prepared statement of the MySQL client library.  Every call the code  *)
(* makes to the client library is modelled by its effect on the statement  *)
(* (stmt) and on the memory the bind table points to; its outcome is a     *)
(* nondeterministic choice.                                                *)
(***************************************************************************)
EXTENDS Integers, Sequences, FiniteSets, TLC

\* Bounds.  STRLEN is the default column buffer capacity, scaled down.
STRLEN == 2
MaxCols == 2
MaxRowsN == 2
MaxLimit == 2
\* the longest value the engine delivers: it does not fit the default buffer
MaxLen == STRLEN + 1

\* Outcomes of mysql_stmt_fetch
MYSQL_OK == 0
MYSQL_ERR == 1
MYSQL_NO_DATA == 100
MYSQL_DATA_TRUNCATED == 101

NULL == <<>>

VARIABLES
    pc,          \* "new" before MysqlResultSet_new, "live", "freed", "crashed"
    stop, keep, maxRows, lastError, needRebind, currentRow, columnCount,
    meta,        \* TRUE iff R->meta is a result metadata handle
    bind,        \* NULL or the bind table: [buffer, buffer_length] per column
    columns,     \* NULL or the descriptor table: [is_null, field, real_length, buffer]
    stmt,        \* the statement handle, as the client library keeps it
    heapBufs,    \* the number of column buffers allocated and not yet freed
    lastCall,    \* what the last call did and returned
    trueCount,   \* how many calls of MysqlResultSet_next returned true
    sawFalse,    \* some call of MysqlResultSet_next returned false
    drainCount,  \* how many times mysql_stmt_reset was called
    engineErr    \* some call into the client library reported a failure

vars == <<pc, stop, keep, maxRows, lastError, needRebind, currentRow,
          columnCount, meta, bind, columns, stmt, heapBufs, lastCall,
          trueCount, sawFalse, drainCount, engineErr>>

\* struct T without the statement
cursorVars == <<stop, keep, maxRows, lastError, needRebind, currentRow,
                columnCount, meta, bind, columns>>

history == <<trueCount, sawFalse, drainCount, engineErr>>

Min(a, b) == IF a <= b THEN a ELSE b

\* The result of a call, as its caller sees it.
\*   ok     next: the value returned; getString/getBlob/getColumnName: a
\*          non-NULL pointer was returned
\*   val    the number returned (count, size, name of the field)
\*   view   what the returned buffer holds of the current value
\*   exc    "none" when the call returned, else which THROW(SQLException, ...)
\*          ended it: "index" (checkAndSetColumnIndex), "mysql_stmt_fetch",
\*          "mysql_stmt_bind_result" or "mysql_stmt_fetch_column"
\*   engine the client library calls made, in order
\*   fault  the invalid memory access made, "none" when there was none
Call(op, arg, ok, val, view, exc, engine, fault) ==
    [op |-> op, arg |-> arg, ok |-> ok, val |-> val, view |-> view,
     exc |-> exc, engine |-> engine, fault |-> fault]

\* the name of the i-th field (0-based) of the result metadata
FieldName(i) == i + 1

\* the value lengths the engine delivers: one that fills the default buffer
\* exactly and one that does not fit
Lens == {STRLEN, MaxLen}

\* what one fetch delivers for one column
RowVals == {[is_null |-> TRUE, len |-> 0]} \cup
           {[is_null |-> FALSE, len |-> l] : l \in Lens}

Init ==
    /\ pc = "new"
    /\ stop = FALSE /\ keep = FALSE /\ maxRows = 0 /\ lastError = 0
    /\ needRebind = FALSE /\ currentRow = 0 /\ columnCount = 0
    /\ meta = FALSE /\ bind = NULL /\ columns = NULL
    /\ \E fc \in 0..MaxCols, n \in 0..MaxRowsN :
          /\ (fc = 0 => n = 0)
          /\ stmt = [field_count |-> fc, nrows |-> n, pos |-> 0,
                     hasRow |-> FALSE, row |-> NULL, bound |-> NULL,
                     closed |-> FALSE,
                     resultFreed |-> FALSE]
    /\ heapBufs = 0
    /\ lastCall = Call("none", 0, FALSE, 0, "none", "none", <<>>, "none")
    /\ trueCount = 0 /\ sawFalse = FALSE /\ drainCount = 0
    /\ engineErr = FALSE

\* ALLOC(STRLEN + 1) and the bind[i] initialisation of MysqlResultSet_new
NewColumn(i) ==
    [is_null |-> FALSE, field |-> FieldName(i), real_length |-> 0,
     buffer |-> [addr |-> 0, size |-> STRLEN + 1, content |-> "none"]]

NewBind(i) == [buffer |-> 0, buffer_length |-> STRLEN]

\* mutant: a failed registration of the bind table is not noticed
BindFailureIgnored(ok) == FALSE

\* if ((R->lastError = mysql_stmt_bind_result(...))) R->stop = true;
StopAfterBind(ok) == ~ok

MysqlResultSet_new ==
    /\ pc = "new"
    /\ \E maxRows_ \in 0..MaxLimit, keep_ \in BOOLEAN,
          metaOk \in BOOLEAN, bindOk \in BOOLEAN, storeOk \in BOOLEAN :
        /\ pc' = "live"
        /\ keep' = keep_
        /\ maxRows' = maxRows_
        /\ columnCount' = stmt.field_count
        /\ needRebind' = FALSE /\ currentRow' = 0
        /\ IF stmt.field_count <= 0
           THEN /\ stop' = TRUE /\ meta' = FALSE
                /\ bind' = NULL /\ columns' = NULL
                /\ lastError' = 0
                /\ UNCHANGED <<stmt, heapBufs, engineErr>>
                /\ lastCall' = Call("new", 0, TRUE, 0, "none", "none",
                                    <<"field_count">>, "none")
           ELSE IF ~metaOk
           THEN /\ stop' = TRUE /\ meta' = FALSE
                /\ bind' = NULL /\ columns' = NULL
                /\ lastError' = 0
                /\ UNCHANGED <<stmt, heapBufs>>
                /\ engineErr' = TRUE
                /\ lastCall' = Call("new", 0, TRUE, 0, "none", "none",
                                    <<"field_count", "result_metadata">>, "none")
           ELSE /\ meta' = TRUE
                /\ bind' = [i \in 1..stmt.field_count |-> NewBind(i - 1)]
                /\ columns' = [i \in 1..stmt.field_count |-> NewColumn(i - 1)]
                /\ heapBufs' = stmt.field_count
                /\ stop' = StopAfterBind(bindOk)
                /\ stmt' = [stmt EXCEPT !.bound = IF bindOk THEN bind' ELSE NULL]
                /\ lastError' = IF storeOk THEN 0 ELSE 1
                /\ engineErr' = ~bindOk
                /\ lastCall' = Call("new", 0, TRUE, 0, "none", "none",
                                    <<"field_count", "result_metadata",
                                      "bind_result", "store_result">>, "none")
    /\ UNCHANGED <<trueCount, sawFalse, drainCount>>

(***************************************************************************)
(* MysqlResultSet_next                                                     *)
(***************************************************************************)

\* if (R->stop) return false;
Stopped(s) == s

\* mutant: fetch-then-check, the limit is noticed one call late
RowLimitPassed(max, cur) == max # 0 /\ cur > max

\* R->maxRows && (R->currentRow++ >= R->maxRows): the test, and the counter
\* after it (the increment is evaluated only when maxRows is not zero)
RowLimitReached(max, cur) == max # 0 /\ cur >= max

\* mutant: the counter is never advanced
BumpRowStuck(max, cur) == cur

BumpRow(max, cur) == IF max # 0 THEN cur + 1 ELSE cur

\* if (R->lastError == 1) THROW(...)
FetchThrows(err) == err = MYSQL_ERR

\* return ((R->lastError == MYSQL_OK) || (R->lastError == MYSQL_DATA_TRUNCATED));
FetchReturn(err) == err = MYSQL_OK \/ err = MYSQL_DATA_TRUNCATED

\* mutant: the end of the rows stops the cursor
StopAtNoData(s, err) == s \/ err = MYSQL_NO_DATA

\* R->stop after the fetch: no statement after mysql_stmt_fetch assigns it
StopAfterFetch(s, err) == s

\* mutant: truncation is resolved in the fetch, the buffer is grown at once
FetchIntoEager(col, b, v) ==
    IF v.is_null
    THEN [col EXCEPT !.is_null = TRUE]
    ELSE [col EXCEPT !.is_null = FALSE,
                     !.real_length = v.len,
                     !.buffer.size = IF v.len > b.buffer_length THEN v.len + 1
                                     ELSE col.buffer.size,
                     !.buffer.content =
                         IF b.buffer # col.buffer.addr THEN "stale" ELSE "full"]

\* mysql_stmt_fetch writes the value v through the registered bind entry b:
\* the null flag and the length go to the descriptor, the bytes to the
\* registered buffer, at most b.buffer_length of them.
FetchInto(col, b, v) ==
    IF v.is_null
    THEN [col EXCEPT !.is_null = TRUE]
    ELSE [col EXCEPT !.is_null = FALSE,
                     !.real_length = v.len,
                     !.buffer.content =
                         IF b.buffer # col.buffer.addr THEN "stale"
                         ELSE IF v.len <= b.buffer_length THEN "full"
                         ELSE "prefix"]

Truncated(b, v) == ~v.is_null /\ v.len > b.buffer_length

\* the registered bind table points at a buffer that RESIZE has moved
StaleBinding(b, cols) ==
    \E i \in 1..Len(cols) : b[i].buffer # cols[i].buffer.addr

\* mutant: the row counter is advanced before R->stop is looked at
NextStoppedCounting ==
    /\ Stopped(stop)
    /\ currentRow <= MaxLimit + 1
    /\ currentRow' = currentRow + 1
    /\ lastCall' = Call("next", 0, FALSE, 0, "none", "none", <<>>, "none")
    /\ sawFalse' = TRUE
    /\ UNCHANGED <<pc, stop, keep, maxRows, lastError, needRebind, columnCount,
                   meta, bind, columns, stmt, heapBufs, trueCount, drainCount,
                   engineErr>>

\* R->stop is set: return false
NextStopped ==
    /\ Stopped(stop)
    /\ lastCall' = Call("next", 0, FALSE, 0, "none", "none", <<>>, "none")
    /\ sawFalse' = TRUE
    /\ UNCHANGED <<pc, cursorVars, stmt, heapBufs, trueCount, drainCount, engineErr>>

\* mutant: the statement is reset but R->stop is not set
NextLimitAgain ==
    /\ ~Stopped(stop)
    /\ RowLimitReached(maxRows, currentRow)
    /\ currentRow <= MaxLimit + 1
    /\ currentRow' = BumpRow(maxRows, currentRow)
    /\ stmt' = [stmt EXCEPT !.hasRow = FALSE, !.row = NULL]
    /\ drainCount' = drainCount + 1
    /\ lastCall' = Call("next", 0, FALSE, 0, "none", "none", <<"reset">>, "none")
    /\ sawFalse' = TRUE
    /\ UNCHANGED <<pc, stop, keep, maxRows, lastError, needRebind, columnCount,
                   meta, bind, columns, heapBufs, trueCount, engineErr>>

\* the row limit is reached: stop, mysql_stmt_reset, return false
NextLimit ==
    /\ ~Stopped(stop)
    /\ RowLimitReached(maxRows, currentRow)
    /\ currentRow <= MaxLimit + 1
    /\ currentRow' = BumpRow(maxRows, currentRow)
    /\ stop' = TRUE
    /\ stmt' = [stmt EXCEPT !.hasRow = FALSE, !.row = NULL]
    /\ drainCount' = drainCount + 1
    /\ lastCall' = Call("next", 0, FALSE, 0, "none", "none", <<"reset">>, "none")
    /\ sawFalse' = TRUE
    /\ UNCHANGED <<pc, keep, maxRows, lastError, needRebind, columnCount, meta,
                   bind, columns, heapBufs, trueCount, engineErr>>

\* mutant: needRebind is cleared before the outcome of the rebind is known
NextRebindFailsCleared ==
    /\ ~Stopped(stop)
    /\ ~RowLimitReached(maxRows, currentRow)
    /\ currentRow <= MaxLimit + 1
    /\ needRebind
    /\ needRebind' = FALSE
    /\ currentRow' = BumpRow(maxRows, currentRow)
    /\ lastError' = 1
    /\ engineErr' = TRUE
    /\ lastCall' = Call("next", 0, FALSE, 0, "none", "mysql_stmt_bind_result",
                        <<"bind_result">>, "none")
    /\ UNCHANGED <<pc, stop, keep, maxRows, columnCount, meta, bind,
                   columns, stmt, heapBufs, trueCount, sawFalse, drainCount>>

\* needRebind is set and mysql_stmt_bind_result fails: THROW
NextRebindFails ==
    /\ ~Stopped(stop)
    /\ ~RowLimitReached(maxRows, currentRow)
    /\ currentRow <= MaxLimit + 1
    /\ needRebind
    /\ currentRow' = BumpRow(maxRows, currentRow)
    /\ lastError' = 1
    /\ engineErr' = TRUE
    /\ lastCall' = Call("next", 0, FALSE, 0, "none", "mysql_stmt_bind_result",
                        <<"bind_result">>, "none")
    /\ UNCHANGED <<pc, stop, keep, maxRows, needRebind, columnCount, meta, bind,
                   columns, stmt, heapBufs, trueCount, sawFalse, drainCount>>

\* (rebind if needed, then) mysql_stmt_fetch
NextFetch ==
    /\ ~Stopped(stop)
    /\ ~RowLimitReached(maxRows, currentRow)
    /\ currentRow <= MaxLimit + 1
    /\ currentRow' = BumpRow(maxRows, currentRow)
    /\ needRebind' = FALSE
    /\ LET b == IF needRebind THEN bind ELSE stmt.bound
           eng == IF needRebind THEN <<"bind_result", "fetch">> ELSE <<"fetch">>
       IN
       \/ \* the fetch fails
          /\ lastError' = MYSQL_ERR
          /\ FetchThrows(lastError')
          /\ stop' = StopAfterFetch(stop, lastError')
          /\ stmt' = [stmt EXCEPT !.bound = b, !.hasRow = FALSE, !.row = NULL]
          /\ engineErr' = TRUE
          /\ lastCall' = Call("next", 0, FALSE, 0, "none", "mysql_stmt_fetch", eng,
                              "none")
          /\ UNCHANGED <<pc, columns, trueCount, sawFalse>>
       \/ \* there is no row left
          /\ stmt.pos >= stmt.nrows
          /\ lastError' = MYSQL_NO_DATA
          /\ ~FetchThrows(lastError')
          /\ stop' = StopAfterFetch(stop, lastError')
          /\ stmt' = [stmt EXCEPT !.bound = b, !.hasRow = FALSE, !.row = NULL]
          /\ lastCall' = Call("next", 0, FetchReturn(lastError'), 0, "none",
                              "none", eng, "none")
          /\ trueCount' = IF FetchReturn(lastError') THEN trueCount + 1 ELSE trueCount
          /\ sawFalse' = (sawFalse \/ ~FetchReturn(lastError'))
          /\ UNCHANGED <<pc, columns, engineErr>>
       \/ \* a row is delivered
          /\ stmt.pos < stmt.nrows
          /\ \E row \in [1..columnCount -> RowVals], crash \in BOOLEAN :
               /\ columns' = [i \in 1..columnCount |->
                                 FetchInto(columns[i], b[i], row[i])]
               /\ lastError' = IF \E i \in 1..columnCount : Truncated(b[i], row[i])
                               THEN MYSQL_DATA_TRUNCATED ELSE MYSQL_OK
               /\ ~FetchThrows(lastError')
               /\ stop' = StopAfterFetch(stop, lastError')
               /\ stmt' = [stmt EXCEPT !.bound = b, !.hasRow = TRUE, !.row = row,
                                       !.pos = stmt.pos + 1]
               /\ crash => StaleBinding(b, columns)
               /\ pc' = IF crash THEN "crashed" ELSE pc
               /\ lastCall' = Call("next", 0, FetchReturn(lastError'), 0, "none",
                                   "none", eng,
                                   IF StaleBinding(b, columns) THEN "use_after_free"
                                   ELSE "none")
               /\ trueCount' = IF FetchReturn(lastError') THEN trueCount + 1
                               ELSE trueCount
               /\ sawFalse' = (sawFalse \/ ~FetchReturn(lastError'))
               /\ UNCHANGED engineErr
    /\ UNCHANGED <<keep, maxRows, columnCount, meta, bind, heapBufs, drainCount>>

MysqlResultSet_next ==
    /\ pc = "live"
    /\ \/ NextStopped
       \/ NextLimit
       \/ NextRebindFails
       \/ NextFetch

(***************************************************************************)
(* Accessors                                                               *)
(***************************************************************************)

\* the column indexes a caller passes: 0 .. columnCount + 1 and beyond
Indexes == 0..(MaxCols + 1)

\* checkAndSetColumnIndex(columnIndex, columnCount) of ResultSetDelegate.h:
\* the index is accepted iff 1 <= columnIndex <= columnCount
IndexOk(columnIndex, cc) == 1 <= columnIndex /\ columnIndex <= cc

\* the test of MysqlResultSet_getColumnName, after columnIndex--
NameIndexOk(columnIndex, cc) ==
    ~(cc <= 0 \/ columnIndex - 1 < 0 \/ columnIndex - 1 > cc)

\* what reading R->columns[i] does (i is 0-based)
MemFault(cols, i) ==
    IF cols = NULL THEN "null_deref"
    ELSE IF i + 1 > Len(cols) THEN "out_of_bounds"
    ELSE "none"

\* a call that changes nothing but what the caller sees
Observe(c) ==
    /\ lastCall' = c
    /\ UNCHANGED <<pc, cursorVars, stmt, heapBufs, history>>

\* a call that ends the process on an invalid memory access
Crash(c) ==
    /\ lastCall' = c
    /\ pc' = "crashed"
    /\ UNCHANGED <<cursorVars, stmt, heapBufs, history>>

\* checkAndSetColumnIndex throws
IndexError(op, columnIndex) ==
    Observe(Call(op, columnIndex, FALSE, 0, "none", "index", <<>>, "none"))

MysqlResultSet_getColumnCount ==
    /\ pc = "live"
    /\ Observe(Call("getColumnCount", 0, TRUE, columnCount, "none", "none",
                    <<>>, "none"))

MysqlResultSet_getColumnName ==
    /\ pc = "live"
    /\ \E columnIndex \in Indexes :
         LET i == columnIndex - 1
             op == "getColumnName"
         IN IF ~NameIndexOk(columnIndex, columnCount)
            THEN Observe(Call(op, columnIndex, FALSE, 0, "none", "none", <<>>, "none"))
            ELSE IF MemFault(columns, i) = "none"
            THEN Observe(Call(op, columnIndex, TRUE, columns[i + 1].field, "none",
                              "none", <<>>, "none"))
            ELSE IF MemFault(columns, i) = "null_deref"
            THEN Crash(Call(op, columnIndex, FALSE, 0, "none", "none", <<>>,
                            "null_deref"))
            ELSE \* a read behind the descriptor table: a crash or some pointer
                 \/ Crash(Call(op, columnIndex, FALSE, 0, "none", "none", <<>>,
                               "out_of_bounds"))
                 \/ Observe(Call(op, columnIndex, TRUE, 0, "none", "none", <<>>,
                                 "out_of_bounds"))

\* mutant: the length of what the buffer holds, not of the value
ColumnSizeStored(col) ==
    IF col.is_null THEN 0 ELSE Min(col.real_length, col.buffer.size - 1)

\* return R->columns[i].is_null ? 0 : R->columns[i].real_length
ColumnSize(col) == IF col.is_null THEN 0 ELSE col.real_length

MysqlResultSet_getColumnSize ==
    /\ pc = "live"
    /\ \E columnIndex \in Indexes :
         LET i == columnIndex - 1
             op == "getColumnSize"
         IN IF ~IndexOk(columnIndex, columnCount)
            THEN IndexError(op, columnIndex)
            ELSE IF MemFault(columns, i) # "none"
            THEN Crash(Call(op, columnIndex, FALSE, 0, "none", "none", <<>>,
                            MemFault(columns, i)))
            ELSE Observe(Call(op, columnIndex, TRUE, ColumnSize(columns[i + 1]),
                              "none", "none", <<>>, "none"))

MysqlResultSet_isnull ==
    /\ pc = "live"
    /\ \E columnIndex \in Indexes :
         LET i == columnIndex - 1
             op == "isnull"
         IN IF ~IndexOk(columnIndex, columnCount)
            THEN IndexError(op, columnIndex)
            ELSE IF MemFault(columns, i) # "none"
            THEN Crash(Call(op, columnIndex, FALSE, 0, "none", "none", <<>>,
                            MemFault(columns, i)))
            ELSE Observe(Call(op, columnIndex, columns[i + 1].is_null, 0,
                              "none", "none", <<>>, "none"))

(***************************************************************************)
(* _ensureCapacity, getString, getBlob                                     *)
(***************************************************************************)

\* mutant: the null flag is not looked at
ReadAbsentNever(col) == FALSE

\* if (R->columns[i].is_null) return NULL;
ReadAbsent(col) == col.is_null

\* mutant: the buffer is fitted to every value, larger or smaller
NeedsResizeAny(col, b) == col.real_length # b.buffer_length

\* R->columns[i].real_length > R->bind[i].buffer_length
NeedsResize(col, b) == col.real_length > b.buffer_length

\* mutant: the buffer is grown without the byte of the terminator
ResizedExact(col, moved) ==
    [col EXCEPT !.buffer = [addr |-> IF moved THEN col.buffer.addr + 1
                                     ELSE col.buffer.addr,
                            size |-> col.real_length,
                            content |-> col.buffer.content]]

\* RESIZE(R->columns[i].buffer, R->columns[i].real_length + 1): the block may
\* move; what it held is kept
Resized(col, moved) ==
    [col EXCEPT !.buffer = [addr |-> IF moved THEN col.buffer.addr + 1
                                     ELSE col.buffer.addr,
                            size |-> col.real_length + 1,
                            content |-> col.buffer.content]]

\* R->bind[i].buffer = R->columns[i].buffer;
\* R->bind[i].buffer_length = R->columns[i].real_length;
Rebound(col) == [buffer |-> col.buffer.addr, buffer_length |-> col.real_length]

\* mysql_stmt_fetch_column succeeded: the buffer holds the whole value
Refetched(col) == [col EXCEPT !.buffer.content = "full"]

\* R->columns[i].buffer[R->columns[i].real_length] = 0 lies in the buffer
TerminatorFits(col) == col.real_length < col.buffer.size

\* getString and getBlob on an accepted index i + 1 of an allocated table
ReadColumn(op, columnIndex) ==
    LET i == columnIndex - 1
        col == columns[i + 1]
        size == IF op = "getBlob" THEN col.real_length ELSE 0
    IN IF ReadAbsent(col)
       THEN Observe(Call(op, columnIndex, FALSE, 0, "none", "none", <<>>, "none"))
       ELSE IF ~NeedsResize(col, bind[i + 1])
       THEN Observe(Call(op, columnIndex, TRUE, size, col.buffer.content, "none",
                         <<>>,
                         IF op = "getString" /\ ~TerminatorFits(col)
                         THEN "out_of_bounds" ELSE "none"))
       ELSE \E moved \in BOOLEAN, fetchOk \in BOOLEAN :
               LET grown == Resized(col, moved)
               IN /\ fetchOk => stmt.hasRow
                  /\ bind' = [bind EXCEPT ![i + 1] = Rebound(grown)]
                  /\ IF fetchOk
                     THEN /\ columns' = [columns EXCEPT ![i + 1] = Refetched(grown)]
                          /\ lastError' = 0
                          /\ needRebind' = TRUE
                          /\ engineErr' = engineErr
                          /\ lastCall' = Call(op, columnIndex, TRUE, size, "full",
                                              "none", <<"fetch_column">>,
                                              IF op = "getString"
                                                 /\ ~TerminatorFits(grown)
                                              THEN "out_of_bounds" ELSE "none")
                     ELSE /\ columns' = [columns EXCEPT ![i + 1] = grown]
                          /\ lastError' = 1
                          /\ needRebind' = needRebind
                          /\ engineErr' = TRUE
                          /\ lastCall' = Call(op, columnIndex, FALSE, 0, "none",
                                              "mysql_stmt_fetch_column",
                                              <<"fetch_column">>, "none")
                  /\ UNCHANGED <<pc, stop, keep, maxRows, currentRow, columnCount,
                                 meta, stmt, heapBufs, trueCount, sawFalse,
                                 drainCount>>

MysqlResultSet_getString ==
    /\ pc = "live"
    /\ \E columnIndex \in Indexes :
         IF ~IndexOk(columnIndex, columnCount)
         THEN IndexError("getString", columnIndex)
         ELSE IF MemFault(columns, columnIndex - 1) # "none"
         THEN Crash(Call("getString", columnIndex, FALSE, 0, "none", "none", <<>>,
                         MemFault(columns, columnIndex - 1)))
         ELSE ReadColumn("getString", columnIndex)

MysqlResultSet_getBlob ==
    /\ pc = "live"
    /\ \E columnIndex \in Indexes :
         IF ~IndexOk(columnIndex, columnCount)
         THEN IndexError("getBlob", columnIndex)
         ELSE IF MemFault(columns, columnIndex - 1) # "none"
         THEN Crash(Call("getBlob", columnIndex, FALSE, 0, "none", "none", <<>>,
                         MemFault(columns, columnIndex - 1)))
         ELSE ReadColumn("getBlob", columnIndex)

(***************************************************************************)
(* MysqlResultSet_free                                                     *)
(***************************************************************************)

\* the client library calls of MysqlResultSet_free, in order
FreeCalls(k, m) ==
    <<"stmt_free_result">> \o (IF k = FALSE THEN <<"stmt_close">> ELSE <<>>)
                           \o (IF m THEN <<"free_result">> ELSE <<>>)

MysqlResultSet_free ==
    /\ pc = "live"
    /\ IF columnCount > 0 /\ MemFault(columns, 0) # "none"
       THEN \* FREE((*R)->columns[0].buffer) reads a table that is not there
            Crash(Call("free", 0, FALSE, 0, "none", "none", <<>>,
                       MemFault(columns, 0)))
       ELSE /\ pc' = "freed"
            /\ heapBufs' = heapBufs - (IF columnCount > 0 THEN columnCount ELSE 0)
            /\ stmt' = [stmt EXCEPT !.resultFreed = TRUE,
                                    !.closed = (keep = FALSE),
                                    !.hasRow = FALSE, !.row = NULL]
            /\ columns' = NULL
            /\ bind' = NULL
            /\ meta' = FALSE
            /\ lastCall' = Call("free", 0, TRUE, 0, "none", "none",
                                FreeCalls(keep, meta), "none")
            /\ UNCHANGED <<stop, keep, maxRows, lastError, needRebind, currentRow,
                           columnCount, history>>

(***************************************************************************)
(* Properties                                                              *)
(***************************************************************************)

IndexOps == {"getColumnName", "getColumnSize", "isnull", "getString", "getBlob"}
ReadOps == {"getString", "getBlob"}

\* the call c was a call of next that reached mysql_stmt_fetch
Fetched(c) ==
    c.op = "next" /\ c.engine # <<>> /\ c.engine[Len(c.engine)] = "fetch"

\* the number of rows a cursor on this statement is to deliver
Expected == IF maxRows = 0 THEN stmt.nrows ELSE Min(stmt.nrows, maxRows)

\* C1: as long as no call into the client library has failed, next has
\* returned true at most N times (min(N, maxRows) times with a row limit), and
\* once it has returned false it has returned true exactly that many times:
\* no later call returns true.
C1_TrueExactlyExpected ==
    ~engineErr =>
        /\ trueCount <= Expected
        /\ sawFalse => trueCount = Expected

C1_Witness ==
    /\ ~engineErr /\ sawFalse /\ lastCall.op = "next" /\ ~lastCall.ok
    /\ maxRows = 1 /\ stmt.nrows = 2 /\ trueCount = 1

\* C2: a view returned by getString or getBlob for a column of the current
\* row is returned with real_length <= buffer_length and with the buffer
\* holding the whole value.
C2_ViewHoldsFullValue ==
    (lastCall.op \in ReadOps /\ lastCall.ok /\ stmt.hasRow) =>
        /\ columns[lastCall.arg].real_length <= bind[lastCall.arg].buffer_length
        /\ lastCall.view = "full"

\* C3: every accessor that takes a column index throws the index exception
\* for an index outside 1..columnCount and reads no descriptor, and does not
\* throw it for index 1 and index columnCount.
C3_IndexChecked ==
    lastCall.op \in IndexOps =>
        /\ ~IndexOk(lastCall.arg, columnCount) =>
               (lastCall.exc = "index" /\ lastCall.fault = "none")
        /\ IndexOk(lastCall.arg, columnCount) => lastCall.exc # "index"

\* C4: R->stop never goes from true to false, and a call of next with R->stop
\* set returns false, calls nothing of the client library and leaves the
\* cursor and the statement as they are.
C4_TerminalOneWay ==
    [][/\ stop => stop'
       /\ (stop /\ lastCall'.op = "next") =>
              /\ ~lastCall'.ok /\ lastCall'.exc = "none"
              /\ lastCall'.engine = <<>>
              /\ UNCHANGED <<cursorVars, stmt, heapBufs, drainCount>>]_vars

C4_Witness ==
    /\ stop /\ columnCount > 0 /\ bind # NULL /\ trueCount > 0
    /\ lastCall.op = "next" /\ ~lastCall.ok /\ lastCall.engine = <<>>

\* C5 as claimed: when mysql_stmt_fetch reports MYSQL_NO_DATA, next returns
\* false without throwing and R->stop is set.
C5_NoDataStops ==
    (Fetched(lastCall) /\ lastError = MYSQL_NO_DATA) =>
        (~lastCall.ok /\ lastCall.exc = "none" /\ stop)

\* C5 amended: when mysql_stmt_fetch reports MYSQL_NO_DATA, next returns false
\* without throwing and R->stop is still false.
C5_NoDataReturnsFalse ==
    (Fetched(lastCall) /\ lastError = MYSQL_NO_DATA) =>
        (~lastCall.ok /\ lastCall.exc = "none" /\ ~stop)

C5_Witness ==
    /\ lastCall.op = "next" /\ lastCall.engine = <<"fetch">>
    /\ lastError = MYSQL_NO_DATA /\ stmt.nrows > 0 /\ trueCount = stmt.nrows

\* C6: free after any outcome of new makes no invalid memory access and
\* leaves no column buffer allocated.
C6_FreeIsSafe ==
    lastCall.op = "free" =>
        (lastCall.fault = "none" /\ pc = "freed" /\ heapBufs = 0)

\* C7: with maxRows > 0 and maxRows rows delivered, the next call of next sets
\* R->stop, resets the statement once, returns false and neither rebinds nor
\* fetches; later calls return false and do not reset again.
C7_DrainAtLimit ==
    [][/\ (maxRows > 0 /\ trueCount = maxRows /\ ~stop /\ lastCall'.op = "next") =>
              /\ stop' /\ ~lastCall'.ok /\ lastCall'.exc = "none"
              /\ lastCall'.engine = <<"reset">>
              /\ drainCount' = drainCount + 1
       /\ (stop /\ lastCall'.op = "next") =>
              (~lastCall'.ok /\ drainCount' = drainCount)]_vars

C7_Witness ==
    /\ maxRows > 0 /\ trueCount = maxRows /\ stop /\ drainCount = 1
    /\ lastCall.op = "next" /\ lastCall.engine = <<"reset">>

\* C8: getString and getBlob on a column whose null flag is set return NULL,
\* call nothing of the client library and change nothing.
C8_NullReadNoEffect ==
    [][(/\ pc = "live" /\ lastCall'.op \in ReadOps
        /\ IndexOk(lastCall'.arg, columnCount) /\ columns # NULL
        /\ columns[lastCall'.arg].is_null) =>
           /\ ~lastCall'.ok /\ lastCall'.exc = "none" /\ lastCall'.fault = "none"
           /\ lastCall'.engine = <<>>
           /\ UNCHANGED <<pc, cursorVars, stmt, heapBufs>>]_vars

C8_Witness ==
    /\ lastCall.op \in ReadOps /\ ~lastCall.ok /\ lastCall.exc = "none"
    /\ pc = "live" /\ columns # NULL /\ IndexOk(lastCall.arg, columnCount)
    /\ columns[lastCall.arg].is_null
    /\ NeedsResize(columns[lastCall.arg], bind[lastCall.arg])

\* C9: getColumnSize returns 0 for a column that is null in the current row and
\* else the length of the value the last fetch delivered, truncated or not;
\* the size getBlob reports is not larger.
C9_SizeIsTrueLength ==
    /\ (lastCall.op = "getColumnSize" /\ lastCall.ok /\ stmt.hasRow) =>
           lastCall.val = IF stmt.row[lastCall.arg].is_null THEN 0
                          ELSE stmt.row[lastCall.arg].len
    /\ (lastCall.op = "getBlob" /\ lastCall.ok) =>
           lastCall.val <= ColumnSize(columns[lastCall.arg])

C9_Witness ==
    /\ lastCall.op = "getColumnSize" /\ lastCall.ok /\ stmt.hasRow
    /\ ~columns[lastCall.arg].is_null
    /\ NeedsResize(columns[lastCall.arg], bind[lastCall.arg])
    /\ lastCall.val = MaxLen

\* C10: getColumnCount returns the field count of the statement and
\* getColumnName(i), 1 <= i <= columnCount, the name of field i, in every
\* state of the cursor, without an invalid memory access.
C10_ShapeStable ==
    /\ lastCall.op = "getColumnCount" => lastCall.val = stmt.field_count
    /\ (lastCall.op = "getColumnName" /\ IndexOk(lastCall.arg, columnCount)) =>
           /\ lastCall.fault = "none" /\ lastCall.ok
           /\ lastCall.val = FieldName(lastCall.arg - 1)

\* the client library call e is among the calls of c
Called(c, e) == \E k \in 1..Len(c.engine) : c.engine[k] = e

\* C11: free closes the statement handle if and only if keep is false, and no
\* other call closes it.
C11_CloseIffNotKeep ==
    /\ lastCall.op = "free" => (stmt.closed <=> keep = FALSE)
    /\ lastCall.op # "free" => ~stmt.closed

\* C12: new throws nothing; with no fields or no metadata the cursor is
\* stopped and mysql_stmt_bind_result is not called; with a failed bind the
\* cursor is stopped; with only mysql_stmt_store_result failing it is not;
\* next on a cursor stopped by new returns false and does not fetch.
C12_OpenNeverRaises ==
    /\ lastCall.op = "new" =>
           /\ lastCall.exc = "none" /\ lastCall.fault = "none"
           /\ (columnCount <= 0 \/ ~meta) =>
                  (stop /\ ~Called(lastCall, "bind_result"))
           /\ (meta /\ stmt.bound = NULL) => stop
           /\ (meta /\ stmt.bound # NULL) => ~stop
    /\ (stop /\ drainCount = 0 /\ lastCall.op = "next") =>
           (~lastCall.ok /\ lastCall.exc = "none" /\ lastCall.engine = <<>>)

C12_Witness ==
    /\ stop /\ drainCount = 0 /\ lastCall.op = "next" /\ ~lastCall.ok
    /\ meta /\ bind # NULL /\ stmt.bound = NULL

\* C13: whenever the bind table differs from the one registered with the
\* statement (a buffer was reallocated since), needRebind is set, and no
\* fetch writes through a registered pointer to a buffer that was replaced.
C13_ResizeSetsRebind ==
    /\ (pc = "live" /\ bind # NULL /\ stmt.bound # NULL /\ bind # stmt.bound) =>
           needRebind
    /\ lastCall.op = "next" => lastCall.fault # "use_after_free"

\* C14: a call of next on a cursor that is not stopped and below its row
\* limit, with needRebind set, calls mysql_stmt_bind_result first; on success
\* needRebind is cleared and mysql_stmt_fetch follows, on failure the call
\* throws without fetching and needRebind stays set.  With needRebind clear
\* the call only fetches.
C14_RebindBeforeFetch ==
    [][(/\ pc = "live" /\ lastCall'.op = "next"
        /\ ~stop /\ ~RowLimitReached(maxRows, currentRow)) =>
           IF needRebind
           THEN \/ /\ lastCall'.engine = <<"bind_result", "fetch">>
                   /\ ~needRebind'
                   /\ stmt'.bound = bind
                \/ /\ lastCall'.engine = <<"bind_result">>
                   /\ lastCall'.exc = "mysql_stmt_bind_result"
                   /\ needRebind'
           ELSE lastCall'.engine = <<"fetch">> /\ ~needRebind']_vars

C14_Witness ==
    /\ lastCall.op = "next" /\ lastCall.engine = <<"bind_result">>
    /\ lastCall.exc = "mysql_stmt_bind_result" /\ needRebind /\ ~stop

ObserveOps == {"getColumnCount", "getColumnName", "getColumnSize", "isnull"}

\* C15: a call of next whose fetch reports MYSQL_DATA_TRUNCATED returns true,
\* reallocates no buffer, changes no capacity and calls no
\* mysql_stmt_fetch_column; getString(i) and getBlob(i) leave the descriptor
\* and the bind entry of every column but i as they are; getColumnCount,
\* getColumnName, getColumnSize and isnull change nothing and call nothing of
\* the client library.
C15_LazyPerColumn ==
    [][/\ (Fetched(lastCall') /\ lastError' = MYSQL_DATA_TRUNCATED) =>
              /\ lastCall'.ok
              /\ bind' = bind
              /\ ~Called(lastCall', "fetch_column")
              /\ \A i \in 1..columnCount :
                     /\ columns'[i].buffer.addr = columns[i].buffer.addr
                     /\ columns'[i].buffer.size = columns[i].buffer.size
       /\ (pc = "live" /\ lastCall'.op \in ReadOps /\ columns # NULL) =>
              \A j \in 1..columnCount :
                  j # lastCall'.arg =>
                      (columns'[j] = columns[j] /\ bind'[j] = bind[j])
       /\ lastCall'.op \in ObserveOps =>
              /\ lastCall'.engine = <<>>
              /\ UNCHANGED <<cursorVars, stmt, heapBufs>>]_vars

C15_Witness ==
    /\ lastCall.op \in ReadOps /\ lastCall.ok /\ lastCall.arg = 1
    /\ Called(lastCall, "fetch_column") /\ columnCount = 2
    /\ lastError = 0 /\ stmt.hasRow
    /\ NeedsResize(columns[2], bind[2]) /\ ~columns[2].is_null

\* C16: no call lowers the capacity or the allocated size of a column buffer,
\* and a read of a value that fits the capacity reallocates nothing.
C16_CapacityMonotonic ==
    [][/\ (bind # NULL /\ bind' # NULL) =>
              \A i \in 1..columnCount :
                  /\ bind'[i].buffer_length >= bind[i].buffer_length
                  /\ columns'[i].buffer.size >= columns[i].buffer.size
       /\ (/\ pc = "live" /\ lastCall'.op \in ReadOps /\ columns # NULL
           /\ IndexOk(lastCall'.arg, columnCount)
           /\ columns[lastCall'.arg].real_length
                  <= bind[lastCall'.arg].buffer_length) =>
              /\ bind' = bind
              /\ columns'[lastCall'.arg].buffer = columns[lastCall'.arg].buffer
              /\ ~Called(lastCall', "fetch_column")]_vars

C16_Witness ==
    /\ lastCall.op \in ReadOps /\ lastCall.ok /\ lastCall.engine = <<>>
    /\ stmt.hasRow /\ stmt.row[lastCall.arg].len = STRLEN
    /\ bind[lastCall.arg].buffer_length = MaxLen
    /\ columns[lastCall.arg].buffer.size = MaxLen + 1

\* C17: after a call of next that threw (mysql_stmt_fetch or
\* mysql_stmt_bind_result failed) the cursor is stopped.
C17_ErrorStops ==
    (lastCall.op = "next" /\ lastCall.exc # "none") => stop

\* C18 as claimed: with maxRows > 0 the statement is reset at most once, and
\* only after maxRows calls of next returned true; currentRow is the number of
\* rows delivered.
C18_DrainOnlyAfterLimitRows ==
    /\ drainCount <= 1
    /\ drainCount = 1 => trueCount = maxRows
    /\ (maxRows > 0 /\ ~stop) => currentRow = trueCount

\* C18 amended: the statement is reset at most once, and exactly in the call
\* of next that finds currentRow = maxRows > 0; every call of next on a cursor
\* that is not stopped, with maxRows > 0, advances currentRow by one whatever
\* it returns, so currentRow is an upper bound of the rows delivered.
C18_DrainOnlyAtLimitCalls ==
    /\ [](/\ drainCount <= 1
          /\ drainCount = 1 <=> (maxRows > 0 /\ stop /\ currentRow = maxRows + 1)
          /\ maxRows > 0 => trueCount <= Min(currentRow, maxRows)
          /\ maxRows = 0 => currentRow = 0)
    /\ [][(pc = "live" /\ lastCall'.op = "next" /\ ~stop /\ maxRows > 0) =>
              /\ currentRow' = currentRow + 1
              /\ drainCount' = drainCount + (IF currentRow = maxRows THEN 1 ELSE 0)
          ]_vars

C18_Witness ==
    /\ drainCount = 1 /\ maxRows = 2 /\ trueCount = 1 /\ stmt.nrows = 1
    /\ ~engineErr /\ lastCall.op = "next" /\ lastCall.engine = <<"reset">>

\* two reads of the same column with no call in between
ReadAgain ==
    /\ pc = "live" /\ pc' = "live"
    /\ lastCall.op \in ReadOps /\ lastCall'.op \in ReadOps
    /\ lastCall'.arg = lastCall.arg
    /\ lastCall.fault = "none" /\ lastCall'.fault = "none"

\* C19: a second getString or getBlob of a column, before the next call of
\* next, returns the same view and length as the first and calls neither
\* RESIZE nor mysql_stmt_fetch_column; mysql_stmt_fetch_column is called only
\* when real_length > buffer_length, and no client library call is made
\* otherwise.
C19_ReadIdempotent ==
    [][/\ ReadAgain =>
              /\ lastCall'.ok = lastCall.ok
              /\ lastCall'.view = lastCall.view
              /\ lastCall'.exc = lastCall.exc
              /\ lastCall'.op = lastCall.op => lastCall'.val = lastCall.val
              /\ lastCall'.engine = <<>>
              /\ columns' = columns /\ bind' = bind
       /\ (pc = "live" /\ lastCall'.op \in ReadOps
              /\ Called(lastCall', "fetch_column")) =>
              NeedsResize(columns[lastCall'.arg], bind[lastCall'.arg])
      ]_vars

\* the part of C19 that does not depend on a failed mysql_stmt_fetch_column
C19_ReadIdempotentAfterSuccess ==
    [][(ReadAgain /\ lastCall.exc = "none") =>
              /\ lastCall'.ok = lastCall.ok
              /\ lastCall'.view = lastCall.view
              /\ lastCall'.exc = lastCall.exc
              /\ lastCall'.op = lastCall.op => lastCall'.val = lastCall.val
              /\ lastCall'.engine = <<>>
              /\ columns' = columns /\ bind' = bind
      ]_vars

\* C20: every allocated column buffer has at least buffer_length + 1 bytes, so
\* the terminator that getString writes at offset real_length is inside it.
C20_TerminatorInside ==
    /\ (pc = "live" /\ columns # NULL) =>
           \A i \in 1..columnCount :
               /\ columns[i].buffer.size >= bind[i].buffer_length + 1
               /\ columns[i].buffer.size >= STRLEN + 1
    /\ lastCall.op = "getString" => lastCall.fault # "out_of_bounds"

C20_Witness ==
    /\ lastCall.op = "getString" /\ lastCall.ok
    /\ lastCall.engine = <<"fetch_column">>
    /\ columns[lastCall.arg].real_length = MaxLen
    /\ columns[lastCall.arg].buffer.size = MaxLen + 1
    /\ bind[lastCall.arg].buffer_length = MaxLen

Next ==
    \/ MysqlResultSet_new
    \/ MysqlResultSet_next
    \/ MysqlResultSet_getColumnCount
    \/ MysqlResultSet_getColumnName
    \/ MysqlResultSet_getColumnSize
    \/ MysqlResultSet_isnull
    \/ MysqlResultSet_getString
    \/ MysqlResultSet_getBlob
    \/ MysqlResultSet_free

Spec == Init /\ [][Next]_vars
====
